---- MODULE Spec2Model ----
(***************************************************************************)
(* A model of schema/validate_csv.py: the chunked, multi-process CSV       *)
(* validator.  The driver (main) loads the records of a CSV file in        *)
(* chunks, dispatches one worker task per chunk to a process pool, and     *)
(* polls the workers' progress queues and the shared validation error      *)
(* queue until every task is ready or more than max_fails failures have    *)
(* been drained.                                                           *)
(***************************************************************************)
EXTENDS Integers, Sequences, FiniteSets, TLC

(***************************************************************************)
(* Bounds of the model.                                                    *)
(***************************************************************************)
MaxCsvRows == 3        \* lines of the CSV file, header included (driver runs)
MaxProcesses == 2      \* --processes
MaxChunkSize == 2      \* --chunk-size
MaxFails == 1          \* --max-fails
MaxDispatchRows == 11  \* lines of the CSV file in the dispatch-only and chunker runs
MaxLiveRows == 3       \* lines of the CSV file in the fair runs
MaxLiveProcesses == 2  \* --processes in the fair runs
MaxLiveChunk == 1      \* --chunk-size in the fair runs
MaxLiveFails == 0      \* --max-fails in the fair runs
MaxOrderRows == 4      \* lines of the CSV file in the multi-chunk runs
MaxOrderProcesses == 2 \* --processes in the multi-chunk runs
MaxOrderChunk == 2     \* --chunk-size in the multi-chunk runs
MaxNullRows == 3       \* lines of the CSV file in the runs with empty fields
MaxNullChunk == 1      \* --chunk-size in the runs with empty fields
MaxSchemaRows == 3     \* lines of the CSV file in the runs with a schema input
MaxSchemaProcesses == 2 \* --processes in the runs with a schema input
MaxSchemaChunk == 2    \* --chunk-size in the runs with a schema input
MaxChunkCount == 4     \* n of chunk_records(records, n) in the chunker runs
MaxDispatchProcesses == 3  \* --processes in the dispatch-only runs
MaxDispatchChunk == 4  \* --chunk-size in the dispatch-only runs
MaxBurst == 4          \* reports buffered on the queue in the reporter runs
MaxPrinted == 3        \* printed_reports argument in the reporter runs
MaxQuota == 2          \* report_quota argument in the reporter runs

header_rows == 1

None == <<>>           \* a missing value: an empty CSV field, an option not given
Some(v) == <<v>>

Max(a, b) == IF a >= b THEN a ELSE b
Min(a, b) == IF a <= b THEN a ELSE b

RECURSIVE SumSeq(_)
SumSeq(s) == IF s = <<>> THEN 0 ELSE Head(s) + SumSeq(Tail(s))

RECURSIVE Concat(_)
Concat(ss) == IF ss = <<>> THEN <<>> ELSE Head(ss) \o Concat(Tail(ss))

(***************************************************************************)
(* The schema and the records.  The schema has two columns, both required: *)
(* "id", a string matching ^[0-9]+$, and "temp", a number in -50..50.  A   *)
(* record maps each column to None or Some(value).                         *)
(***************************************************************************)
Columns == {"id", "temp"}
Digits == {"17", "42"}          \* the strings of the model that match ^[0-9]+$
IdValues == {None, Some("17"), Some("abc")}
TempValues == {None, Some(20), Some(100)}
Records == [id : IdValues, temp : TempValues]

GoodRecord == [id |-> Some("17"), temp |-> Some(20)]
BadIdRecord == [id |-> Some("abc"), temp |-> Some(20)]
BadTempRecord == [id |-> Some("17"), temp |-> Some(100)]
BadBothRecord == [id |-> Some("abc"), temp |-> Some(100)]

\* The rules of the schema, in the order best_match ranks their errors.
RuleOrder == <<"required", "type", "pattern", "maximum", "minimum">>
RuleRank(r) == CHOOSE i \in 1..Len(RuleOrder) : RuleOrder[i] = r

\* A worker that hands the record to validate with its null fields.
DropNone_keep_nulls(record) == record

\* worker, line 350: {k: v for k, v in record.items() if v is not None}
DropNone(record) ==
    [k \in {c \in DOMAIN record : record[c] # None} |-> record[k]]

\* The errors jsonschema's iter_errors yields for an instance: (rule, column).
\* Both columns are required; id is a string of digits, temp a number from
\* -50 to 50.  A null is of neither type, and the pattern and the range are
\* checked for values of their type only.
iter_errors(instance) ==
    {<<"required", c>> : c \in Columns \ DOMAIN instance}
    \cup {<<"type", c>> : c \in {d \in DOMAIN instance : instance[d] = None}}
    \cup (IF /\ "id" \in DOMAIN instance
             /\ instance["id"] # None
             /\ instance["id"][1] \notin Digits
          THEN {<<"pattern", "id">>} ELSE {})
    \cup (IF /\ "temp" \in DOMAIN instance
             /\ instance["temp"] # None
             /\ instance["temp"][1] > 50
          THEN {<<"maximum", "temp">>} ELSE {})
    \cup (IF /\ "temp" \in DOMAIN instance
             /\ instance["temp"] # None
             /\ instance["temp"][1] < -50
          THEN {<<"minimum", "temp">>} ELSE {})

ColRank(c) == IF c = "id" THEN 1 ELSE 2

\* jsonschema.validate: raises the single best-matching error, or returns.
\* None stands for "no exception".
validate(instance) ==
    LET errs == iter_errors(instance) IN
    IF errs = {} THEN None
    ELSE Some(CHOOSE e \in errs : \A f \in errs :
                \/ RuleRank(e[1]) < RuleRank(f[1])
                \/ RuleRank(e[1]) = RuleRank(f[1]) /\ ColRank(e[2]) <= ColRank(f[2]))

\* validation_error_report: the report names the row, the failed validator and
\* the json path of the offending element.
validation_error_report(e, row) ==
    [row |-> row, validator |-> e[1], path |-> e[2]]

(***************************************************************************)
(* The CSV file is a sequence of lines: line 1 is the header, every other  *)
(* line is a record.                                                       *)
(***************************************************************************)
Header == [id |-> Some("id"), temp |-> Some("temp")]

lines_in_file(file) == Len(file)

\* maximum_chunk_size: int(rows / processes)
maximum_chunk_size(rows, processes) == rows \div processes

\* pd.read_csv(skiprows=lambda x: x != 0 and x < start_row) with start_row
\* already converted to 0-index: the lines kept, as 0-indexed line numbers.  The
\* first kept line (line 0, never skipped) gives the column names; the others
\* are the rows of the data frame.  Each loaded row is paired with its 1-indexed
\* line number in the file, which the program itself does not keep.
\* A skiprows test without the guard that keeps line 0.
skiprows_no_header_guard(x, start_row0) == x < start_row0

skiprows(x, start_row0) == x # 0 /\ x < start_row0

\* The 0-indexed lines of the file that read_csv does not skip, in file order.
kept_lines(file, start_row) ==
    LET start_row0 == start_row - 1
    IN  SelectSeq([i \in 1..Len(file) |-> i - 1],
                  LAMBDA x : ~skiprows(x, start_row0))

\* The line read_csv takes the column names from: the first line it keeps.
read_csv_columns(file, start_row) == file[kept_lines(file, start_row)[1] + 1]

read_csv(file, start_row) ==
    LET kept == kept_lines(file, start_row)
    IN  [j \in 1..(Len(kept) - 1) |->
            [line |-> kept[j + 1] + 1, record |-> file[kept[j + 1] + 1]]]

\* An iterator that starts every chunk at the first row again.
get_chunk_rewound(rows, pos, size) == SubSeq(rows, 1, Min(size, Len(rows)))

\* The chunk the pandas iterator yields after `pos` rows have been read.
get_chunk(rows, pos, size) == SubSeq(rows, pos + 1, Min(pos + size, Len(rows)))

\* Python's reports[:m]
SliceTo(s, m) ==
    IF m >= 0 THEN SubSeq(s, 1, Min(m, Len(s)))
    ELSE SubSeq(s, 1, Max(Len(s) + m, 0))

\* get_validation_reports: report_queue.get(False) until queue.Empty.  Returns
\* the reports received, oldest first, and the queue as it is left.
RECURSIVE get_reports_loop(_, _)
get_reports_loop(report_queue, reports) ==
    IF report_queue = <<>>
    THEN [reports |-> reports, queue |-> report_queue]
    ELSE get_reports_loop(Tail(report_queue), Append(reports, Head(report_queue)))

get_validation_reports(report_queue) == get_reports_loop(report_queue, <<>>)

\* A reporter that prints everything it drains.
print_validation_reports_unbounded(queue, printed_reports, report_quota) ==
    LET got == get_validation_reports(queue) IN
    [printed_reports |-> printed_reports, report_quota |-> report_quota,
     drained |-> got.reports, printed |-> got.reports, ret |-> Len(got.reports),
     queue |-> got.queue]

\* print_validation_reports: what one call drains, prints and returns, and the
\* queue as the call leaves it.
print_validation_reports(queue, printed_reports, report_quota) ==
    LET max_reports == report_quota - printed_reports
        got == get_validation_reports(queue)
        report_num == Len(got.reports)
        reports == IF report_num > max_reports
                   THEN SliceTo(got.reports, max_reports) ELSE got.reports
    IN  [printed_reports |-> printed_reports, report_quota |-> report_quota,
         drained |-> got.reports, printed |-> reports, ret |-> report_num,
         queue |-> got.queue]

\* get_row_progress_update: progress_queue.get(False) until queue.Empty.
\* Returns the sum of the updates received and the queue as it is left.
RECURSIVE get_progress_loop(_, _)
get_progress_loop(progress_queue, total_rows) ==
    IF progress_queue = <<>>
    THEN [total_rows |-> total_rows, queue |-> progress_queue]
    ELSE get_progress_loop(Tail(progress_queue), total_rows + Head(progress_queue))

\* A drain that takes one update at most and leaves the others on the queue.
get_row_progress_update_once(progress_queue) ==
    IF progress_queue = <<>>
    THEN [total_rows |-> 0, queue |-> progress_queue]
    ELSE [total_rows |-> Head(progress_queue), queue |-> Tail(progress_queue)]

get_row_progress_update(progress_queue) == get_progress_loop(progress_queue, 0)

\* are_results_ready: all([result.ready() for result in results])
are_results_ready(rs) == \A k \in 1..Len(rs) : rs[k] # None

(***************************************************************************)
(* State.                                                                  *)
(***************************************************************************)
VARIABLES
    csv_file,                       \* the lines of the CSV file
    args,                           \* the parsed command line
    pc,                             \* where the driver is
    chunk_size,                     \* main: min(max_chunk_size, args.chunk_size)
    reader_pos,                     \* record_chunks: rows the iterator has yielded
    file_relative_chunk_start_row,  \* dispatch_workers
    tasks,                          \* one worker task per dispatched chunk
    results,                        \* the tasks' AsyncResults: None until ready
    progress_queues,                \* one queue per task
    validation_error_queue,         \* shared by all the workers
    total_fails,                    \* main
    pbar_n,                         \* the progress bar's position
    queue_i,                        \* update_progress_bar: next queue to drain
    stdout,                         \* what tqdm.write has printed
    call,                           \* the last call of print_validation_reports
    schema,                         \* the schema document load_schema returned
    chunks                          \* what chunk_records has yielded

vars == <<csv_file, args, pc, chunk_size, reader_pos, file_relative_chunk_start_row,
          tasks, results, progress_queues, validation_error_queue, total_fails,
          pbar_n, queue_i, stdout, call, chunks, schema>>

inputs == <<csv_file, args, schema>>

\* load_schema: the schema of the runs, or a document that is not a valid
\* JSON Schema (jsonschema.validate checks the schema before the instance and
\* raises SchemaError for it).
ValidSchema == "valid"
InvalidSchema == "invalid"

raises_SchemaError(s) == s = InvalidSchema

ExitNotice == [text |-> "Exit Condition: Max failures reached"]
ReportLine(r) == [text |-> "report", report |-> r]

\* The rows the loader loads in this run.
loaded == read_csv(csv_file, args.start_row)

(***************************************************************************)
(* The driver run: main() from the command line to the exit status.        *)
(***************************************************************************)
RowKinds == {GoodRecord, BadBothRecord}

Files(maxRows, kinds) ==
    UNION {{<<Header>> \o d : d \in [1..n -> kinds]} : n \in 1..(maxRows - 1)}

NoCall == [printed_reports |-> 0, report_quota |-> 0, drained |-> <<>>,
           printed |-> <<>>, ret |-> 0, queue |-> <<>>]

\* init_cli: --start-row, default=2
default_start_row == 2

\* init_cli: --processes, default=1
default_processes == 1

\* init_cli: --max-fails, default=1
default_max_fails == 1

InitRest ==
    /\ chunk_size = 0
    /\ reader_pos = 0
    /\ file_relative_chunk_start_row = 0
    /\ tasks = <<>>
    /\ results = <<>>
    /\ progress_queues = <<>>
    /\ validation_error_queue = <<>>
    /\ total_fails = 0
    /\ pbar_n = 0
    /\ queue_i = 0
    /\ stdout = <<>>
    /\ call = NoCall
    /\ chunks = <<>>

\* The command lines and files of the driver runs: a file with a header and at
\* least one record, a start row inside the file.
Init ==
    /\ csv_file \in Files(MaxCsvRows, RowKinds)
    /\ args \in [start_row : 1..MaxCsvRows,
                 processes : 1..MaxProcesses,
                 chunk_size : {None} \cup {Some(n) : n \in 1..MaxChunkSize},
                 max_fails : 0..MaxFails]
    /\ args.start_row <= Len(csv_file)
    /\ pc = "main"
    /\ schema = ValidSchema
    /\ InitRest

\* main, lines 43-67: count the lines, choose the chunk size, create the (lazy)
\* chunk loader, the queue and the pool, and position the progress bar.
\* min(max_chunk_size, None) raises TypeError.
Main ==
    /\ pc = "main"
    /\ LET csv_rows == lines_in_file(csv_file)
           max_chunk_size == maximum_chunk_size(csv_rows, args.processes)
       IN  IF args.chunk_size = None
           THEN /\ pc' = "TypeError"
                /\ UNCHANGED <<chunk_size, pbar_n, file_relative_chunk_start_row>>
           ELSE /\ chunk_size' = Min(max_chunk_size, args.chunk_size[1])
                /\ pbar_n' = args.start_row - 1
                /\ file_relative_chunk_start_row' = args.start_row
                /\ pc' = "dispatch"
    /\ UNCHANGED <<inputs, chunks, reader_pos, tasks, results, progress_queues,
                   validation_error_queue, total_fails, queue_i, stdout, call>>

\* A worker task: the arguments of worker(), its position in its loop, and a
\* record of what it has done: the lines it has validated, the line each of
\* its reports is about, and the sum of the progress updates it has put.
NewTask(chunk, start_row) ==
    [records |-> chunk, start_row |-> start_row, status |-> "queued",
     relative_row |-> 0, reported |-> FALSE, reports |-> <<>>,
     validated |-> <<>>, report_lines |-> <<>>, put_sum |-> 0]

\* A dispatcher that advances the start row to the last row of the chunk.
next_chunk_start_row_last(row, chunk) == row + Len(chunk) - 1

\* dispatch_workers, line 313: file_relative_chunk_start_row += len(chunk)
next_chunk_start_row(row, chunk) == row + Len(chunk)

\* dispatch_workers, lines 299-313: one iteration of the loop over the chunks.
\* The first iteration starts the loader, where pandas rejects a chunksize
\* below 1 with ValueError.
DispatchChunk ==
    /\ pc = "dispatch"
    /\ IF chunk_size < 1
       THEN /\ pc' = "ValueError"
            /\ UNCHANGED <<reader_pos, file_relative_chunk_start_row, tasks,
                           results, progress_queues>>
       ELSE /\ reader_pos < Len(loaded)
            /\ LET chunk == get_chunk(loaded, reader_pos, chunk_size) IN
                /\ reader_pos' = reader_pos + Len(chunk)
                /\ progress_queues' = Append(progress_queues, <<>>)
                /\ tasks' = Append(tasks, NewTask(chunk, file_relative_chunk_start_row))
                /\ results' = Append(results, None)
                /\ file_relative_chunk_start_row' =
                       next_chunk_start_row(file_relative_chunk_start_row, chunk)
            /\ UNCHANGED pc
    /\ UNCHANGED <<inputs, chunks, chunk_size, validation_error_queue, total_fails,
                   pbar_n, queue_i, stdout, call>>

\* dispatch_workers returns when the loader is exhausted; main closes the pool
\* and enters the poll loop.
DispatchDone ==
    /\ pc = "dispatch"
    /\ chunk_size >= 1
    /\ reader_pos >= Len(loaded)
    /\ pc' = "poll"
    /\ UNCHANGED <<inputs, chunks, chunk_size, reader_pos, file_relative_chunk_start_row,
                   tasks, results, progress_queues, validation_error_queue,
                   total_fails, pbar_n, queue_i, stdout, call>>

(***************************************************************************)
(* The pool and the workers.  The pool has args.processes processes; each  *)
(* takes the oldest task not yet started when it is idle.  The processes   *)
(* end with the driver.                                                    *)
(***************************************************************************)
Exited == pc \in {"completed", "early_exit", "TypeError", "ValueError"}

Running == {k \in 1..Len(tasks) : tasks[k].status = "running"}

\* A pool that starts every task at once.
pool_unbounded(running, processes) == TRUE

\* mp.Pool(processes=args.processes): a task starts when fewer than
\* `processes` tasks are running.
pool_has_idle_process(running, processes) == Cardinality(running) < processes

WorkerStart(k) ==
    /\ ~Exited
    /\ tasks[k].status = "queued"
    /\ \A j \in 1..(k - 1) : tasks[j].status # "queued"
    /\ pool_has_idle_process(Running, args.processes)
    /\ tasks' = [tasks EXCEPT ![k].status = "running"]
    /\ UNCHANGED <<inputs, chunks, pc, chunk_size, reader_pos, file_relative_chunk_start_row,
                   results, progress_queues, validation_error_queue, total_fails,
                   pbar_n, queue_i, stdout, call>>

\* worker, line 357: row_progress_queue.put(1)
progress_update == 1

\* A worker that reports the start row of its chunk for every record.
absolute_row_of_chunk(start_row, relative_row) == start_row

\* A worker that reports the record's position inside its chunk.
absolute_row_in_chunk(start_row, relative_row) == relative_row

\* worker, line 353: absolute_row = start_row + relative_row
absolute_row(start_row, relative_row) == start_row + relative_row

\* The errors of an instance, best match first.
RECURSIVE SortedErrors(_)
SortedErrors(errs) ==
    IF errs = {} THEN <<>>
    ELSE LET e == CHOOSE e \in errs : \A f \in errs :
                    \/ RuleRank(e[1]) < RuleRank(f[1])
                    \/ RuleRank(e[1]) = RuleRank(f[1]) /\ ColRank(e[2]) <= ColRank(f[2])
         IN  <<e>> \o SortedErrors(errs \ {e})

\* A worker that reports every error of the record (validator.iter_errors).
caught_errors_all(record) == SortedErrors(iter_errors(DropNone(record)))

\* worker, lines 349-352: the ValidationError caught for a record, if any.
caught_errors(record) ==
    LET e == validate(DropNone(record)) IN
    IF e = None THEN <<>> ELSE <<e[1]>>

\* A worker that skips the progress update of a record that failed.
record_progress_passed_only(failed) == IF failed THEN <<>> ELSE <<progress_update>>

\* worker, line 357: the progress updates put for a record, failed or not.
record_progress(failed) == <<progress_update>>

\* A worker whose loop ends at the first record that fails.
after_record_abort(relative_row, failed, n) == IF failed THEN n ELSE relative_row + 1

\* worker, line 348: the loop goes on to the next record, failed or not.
after_record(relative_row, failed, n) == relative_row + 1

\* worker, lines 348-356: the next record fails validation; the exception is
\* turned into a report, put on the validation error queue and kept.
WorkerReport(k) ==
    /\ ~Exited
    /\ tasks[k].status = "running"
    /\ tasks[k].relative_row < Len(tasks[k].records)
    /\ ~raises_SchemaError(schema)
    /\ ~tasks[k].reported
    /\ LET t == tasks[k]
           row == t.records[t.relative_row + 1]
           es == caught_errors(row.record)
       IN  /\ es # <<>>
           /\ LET new == [i \in 1..Len(es) |->
                             validation_error_report(
                                 es[i], absolute_row(t.start_row, t.relative_row))]
               IN  /\ validation_error_queue' = validation_error_queue \o new
                   /\ tasks' = [tasks EXCEPT
                                    ![k].reported = TRUE,
                                    ![k].reports = @ \o new,
                                    ![k].report_lines =
                                        @ \o [i \in 1..Len(es) |-> row.line],
                                    ![k].validated = Append(@, row.line)]
    /\ UNCHANGED <<inputs, chunks, pc, chunk_size, reader_pos, file_relative_chunk_start_row,
                   results, progress_queues, total_fails, pbar_n, queue_i, stdout,
                   call>>

\* worker, lines 348-357: the next record passes validation, or its report has
\* been put; the worker puts the record's progress update and moves on.
WorkerProgress(k) ==
    /\ ~Exited
    /\ tasks[k].status = "running"
    /\ tasks[k].relative_row < Len(tasks[k].records)
    /\ ~raises_SchemaError(schema)
    /\ LET t == tasks[k]
           row == t.records[t.relative_row + 1]
           updates == record_progress(t.reported)
       IN  /\ t.reported \/ caught_errors(row.record) = <<>>
           /\ progress_queues' = [progress_queues EXCEPT ![k] = @ \o updates]
           /\ tasks' = [tasks EXCEPT
                            ![k].relative_row =
                                after_record(@, t.reported, Len(t.records)),
                            ![k].reported = FALSE,
                            ![k].put_sum = @ + SumSeq(updates),
                            ![k].validated =
                                IF t.reported THEN @ ELSE Append(@, row.line)]
    /\ UNCHANGED <<inputs, chunks, pc, chunk_size, reader_pos, file_relative_chunk_start_row,
                   results, validation_error_queue, total_fails, pbar_n, queue_i,
                   stdout, call>>

\* worker, line 351: validate raises SchemaError, which worker does not catch;
\* the task ends and its AsyncResult is ready, holding the exception.
WorkerError(k) ==
    /\ ~Exited
    /\ tasks[k].status = "running"
    /\ tasks[k].relative_row < Len(tasks[k].records)
    /\ raises_SchemaError(schema)
    /\ tasks' = [tasks EXCEPT ![k].status = "failed"]
    /\ results' = [results EXCEPT ![k] = Some(<<"SchemaError">>)]
    /\ UNCHANGED <<inputs, chunks, pc, chunk_size, reader_pos, file_relative_chunk_start_row,
                   progress_queues, validation_error_queue, total_fails, pbar_n,
                   queue_i, stdout, call>>

\* A handle that never becomes ready.
async_result_never_ready(t) == None

\* worker, line 358: the value the task's AsyncResult holds once it is ready.
async_result(t) == Some(<<Len(t.records), t.reports>>)

\* worker, line 358: return (len(records), reports); the task's result is ready.
WorkerReturn(k) ==
    /\ ~Exited
    /\ tasks[k].status = "running"
    /\ tasks[k].relative_row = Len(tasks[k].records)
    /\ tasks' = [tasks EXCEPT ![k].status = "returned"]
    /\ results' = [results EXCEPT ![k] = async_result(tasks[k])]
    /\ UNCHANGED <<inputs, chunks, pc, chunk_size, reader_pos, file_relative_chunk_start_row,
                   progress_queues, validation_error_queue, total_fails, pbar_n,
                   queue_i, stdout, call>>

(***************************************************************************)
(* The poll loop of main, lines 80-93.                                     *)
(***************************************************************************)
\* A driver that exits as soon as the count reaches max_fails.
quota_reached(fails, max_fails) == fails >= max_fails

\* main, line 81: total_fails > args.max_fails
quota_exceeded(fails, max_fails) == fails > max_fails

\* An exit that writes no notice.
write_exit_notice_silent(out) == out

\* tqdm.write("Exit Condition: Max failures reached")
write_exit_notice(out) == Append(out, ExitNotice)

\* The loop test and the quota test: leave the loop when every result is ready,
\* exit with status 1 when more than max_fails failures have been counted,
\* otherwise go on to update the progress bar.
Poll ==
    /\ pc = "poll"
    /\ IF are_results_ready(results)
       THEN /\ pc' = "completed"
            /\ pbar_n' = lines_in_file(csv_file)
            /\ UNCHANGED <<stdout, queue_i>>
       ELSE IF quota_exceeded(total_fails, args.max_fails)
       THEN /\ pc' = "early_exit"
            /\ stdout' = write_exit_notice(stdout)
            /\ UNCHANGED <<pbar_n, queue_i>>
       ELSE /\ pc' = "progress"
            /\ queue_i' = 1
            /\ UNCHANGED <<stdout, pbar_n>>
    /\ UNCHANGED <<inputs, chunks, chunk_size, reader_pos, file_relative_chunk_start_row,
                   tasks, results, progress_queues, validation_error_queue,
                   total_fails, call>>

\* update_progress_bar: drain the next progress queue into the bar.
UpdateProgressBar ==
    /\ pc = "progress"
    /\ queue_i <= Len(progress_queues)
    /\ LET got == get_row_progress_update(progress_queues[queue_i]) IN
        /\ progress_queues' = [progress_queues EXCEPT ![queue_i] = got.queue]
        /\ pbar_n' = pbar_n + got.total_rows
    /\ queue_i' = queue_i + 1
    /\ pc' = IF queue_i = Len(progress_queues) THEN "reports" ELSE "progress"
    /\ UNCHANGED <<inputs, chunks, chunk_size, reader_pos, file_relative_chunk_start_row,
                   tasks, results, validation_error_queue, total_fails, stdout,
                   call>>

\* fails = print_validation_reports(...); total_fails += fails
PrintValidationReports ==
    /\ pc = "reports"
    /\ LET c == print_validation_reports(validation_error_queue, total_fails,
                                         args.max_fails)
       IN  /\ call' = c
           /\ validation_error_queue' = c.queue
           /\ stdout' = stdout \o [i \in 1..Len(c.printed) |-> ReportLine(c.printed[i])]
           /\ total_fails' = total_fails + c.ret
    /\ pc' = "poll"
    /\ UNCHANGED <<inputs, chunks, chunk_size, reader_pos, file_relative_chunk_start_row,
                   tasks, results, progress_queues, pbar_n, queue_i>>

Next ==
    \/ Main
    \/ DispatchChunk
    \/ DispatchDone
    \/ \E k \in 1..Len(tasks) : WorkerStart(k)
    \/ \E k \in 1..Len(tasks) : WorkerReport(k)
    \/ \E k \in 1..Len(tasks) : WorkerProgress(k)
    \/ \E k \in 1..Len(tasks) : WorkerReturn(k)
    \/ Poll
    \/ UpdateProgressBar
    \/ PrintValidationReports

Spec == Init /\ [][Next]_vars

(***************************************************************************)
(* Driver runs under fair scheduling: the driver takes its next step when  *)
(* it has one, and so does the pool while a worker has one (the operating  *)
(* system runs every process).                                             *)
(***************************************************************************)
InitLive ==
    /\ csv_file \in Files(MaxLiveRows, RowKinds)
    /\ args \in [start_row : {default_start_row},
                 processes : 1..MaxLiveProcesses,
                 chunk_size : {Some(n) : n \in 1..MaxLiveChunk},
                 max_fails : 0..MaxLiveFails]
    /\ args.start_row <= Len(csv_file)
    /\ pc = "main"
    /\ schema = ValidSchema
    /\ InitRest

DriverStep ==
    Main \/ DispatchChunk \/ DispatchDone \/ Poll \/ UpdateProgressBar
        \/ PrintValidationReports

WorkerStep ==
    \E k \in 1..Len(tasks) :
        WorkerStart(k) \/ WorkerReport(k) \/ WorkerProgress(k) \/ WorkerReturn(k)

SpecLive ==
    InitLive /\ [][Next]_vars /\ WF_vars(DriverStep) /\ WF_vars(WorkerStep)

(***************************************************************************)
(* Driver runs over files long enough for several chunks of several        *)
(* records each, started at the default start row.                         *)
(***************************************************************************)
InitOrder ==
    /\ csv_file \in {f \in Files(MaxOrderRows, RowKinds) : Len(f) = MaxOrderRows}
    /\ args \in [start_row : {default_start_row},
                 processes : 1..MaxOrderProcesses,
                 chunk_size : {Some(MaxOrderChunk)},
                 max_fails : {0, MaxOrderRows}]
    /\ pc = "main"
    /\ schema = ValidSchema
    /\ InitRest

SpecOrder == InitOrder /\ [][Next]_vars

(***************************************************************************)
(* Driver runs over files whose fields may be empty: pandas loads an empty *)
(* field as NaN, which to_json writes as null and json.loads reads as None.*)
(***************************************************************************)
InitNull ==
    /\ csv_file \in Files(MaxNullRows, Records)
    /\ args \in [start_row : {default_start_row},
                 processes : {default_processes},
                 chunk_size : {Some(n) : n \in 1..MaxNullChunk},
                 max_fails : {MaxNullRows}]
    /\ pc = "main"
    /\ schema = ValidSchema
    /\ InitRest

SpecNull == InitNull /\ [][Next]_vars

(***************************************************************************)
(* Driver runs with the schema document as an input: the runs' schema or a *)
(* document that is not a valid JSON Schema.                               *)
(***************************************************************************)
InitSchema ==
    /\ csv_file \in Files(MaxSchemaRows, RowKinds)
    /\ args \in [start_row : {default_start_row},
                 processes : 1..MaxSchemaProcesses,
                 chunk_size : {Some(n) : n \in 1..MaxSchemaChunk},
                 max_fails : {default_max_fails}]
    /\ schema \in {ValidSchema, InvalidSchema}
    /\ pc = "main"
    /\ InitRest

NextSchema ==
    \/ Next
    \/ \E k \in 1..Len(tasks) : WorkerError(k)

SpecSchema == InitSchema /\ [][NextSchema]_vars

(***************************************************************************)
(* Dispatch-only runs: main up to the return of dispatch_workers, over     *)
(* longer files, before any pool process has taken a task.                 *)
(***************************************************************************)
InitDispatch ==
    /\ csv_file \in Files(MaxDispatchRows, {GoodRecord})
    /\ args \in [start_row : 1..MaxDispatchRows,
                 processes : 1..MaxDispatchProcesses,
                 chunk_size : {Some(n) : n \in 1..MaxDispatchChunk},
                 max_fails : {0}]
    /\ args.start_row <= Len(csv_file)
    /\ pc = "main"
    /\ schema = ValidSchema
    /\ InitRest

NextDispatch ==
    \/ Main
    \/ DispatchChunk
    \/ DispatchDone

SpecDispatch == InitDispatch /\ [][NextDispatch]_vars

(***************************************************************************)
(* Reporter runs: print_validation_reports called with any printed_reports *)
(* and report_quota while one worker, validating a chunk of failing        *)
(* records, feeds the validation error queue.                              *)
(***************************************************************************)
InitReporter ==
    /\ csv_file \in {<<Header>> \o [i \in 1..n |-> BadBothRecord] : n \in 1..MaxBurst}
    /\ args = [start_row |-> 2, processes |-> 1, chunk_size |-> Some(MaxBurst),
               max_fails |-> 0]
    /\ pc = "reporter"
    /\ chunk_size = MaxBurst
    /\ reader_pos = Len(loaded)
    /\ file_relative_chunk_start_row = args.start_row + Len(loaded)
    /\ tasks = <<NewTask(loaded, args.start_row)>>
    /\ results = <<None>>
    /\ progress_queues = <<<<>>>>
    /\ validation_error_queue = <<>>
    /\ total_fails = 0
    /\ pbar_n = args.start_row - 1
    /\ queue_i = 0
    /\ stdout = <<>>
    /\ call = NoCall
    /\ chunks = <<>>
    /\ schema = ValidSchema

ReporterCall(printed_reports, report_quota) ==
    /\ pc = "reporter"
    /\ LET c == print_validation_reports(validation_error_queue, printed_reports,
                                         report_quota)
       IN  /\ call' = c
           /\ validation_error_queue' = c.queue
           /\ stdout' = stdout \o [i \in 1..Len(c.printed) |-> ReportLine(c.printed[i])]
    /\ UNCHANGED <<inputs, chunks, pc, chunk_size, reader_pos, file_relative_chunk_start_row,
                   tasks, results, progress_queues, total_fails, pbar_n, queue_i>>

NextReporter ==
    \/ \E k \in 1..Len(tasks) : WorkerStart(k)
    \/ \E k \in 1..Len(tasks) : WorkerReport(k)
    \/ \E k \in 1..Len(tasks) : WorkerProgress(k)
    \/ \E k \in 1..Len(tasks) : WorkerReturn(k)
    \/ \E p \in 0..MaxPrinted, q \in 0..MaxQuota : ReporterCall(p, q)

SpecReporter == InitReporter /\ [][NextReporter]_vars

(***************************************************************************)
(* Quantities the properties are about.                                    *)
(***************************************************************************)
\* The validation failures the workers have produced so far.
Produced == SumSeq([k \in 1..Len(tasks) |-> Len(tasks[k].reports)])

\* The validation reports printed so far.
PrintedReports == SelectSeq(stdout, LAMBDA l : l.text = "report")

\* The exit status of a run that has ended: 0 after the poll loop completes,
\* 1 after sys.exit(1) or an uncaught exception.
ExitStatus == IF pc = "completed" THEN 0 ELSE 1

DispatchReturned == pc \in {"poll", "progress", "reports", "completed", "early_exit"}

\* The position of a loaded record among the loaded records, from its line.
LoadedIndex(line) == CHOOSE j \in 1..Len(loaded) : loaded[j].line = line

\* The violations of the record at position i (from 1) of task k's chunk.
ViolationsOf(k, i) == iter_errors(DropNone(tasks[k].records[i].record))

\* The reports task k has produced for the record at position i of its chunk.
ReportsFor(k, i) ==
    {j \in 1..Len(tasks[k].reports) :
        tasks[k].report_lines[j] = tasks[k].records[i].line}

\* The records of task k's chunk whose validation is over.
Processed(k) == 1..tasks[k].relative_row

(***************************************************************************)
(* C1.  A run ends with exit status 0 only if the workers produced at most *)
(* max_fails validation failures, and with a non-zero status whenever they *)
(* produced more.  The loop test of main ends the run with status 0 as     *)
(* soon as every result is ready, whatever is still on the queue and       *)
(* whatever total_fails has become, so this fails.                         *)
(***************************************************************************)
C1_ExitStatusReflectsQuota ==
    Exited =>
        /\ (ExitStatus = 0 => Produced <= args.max_fails)
        /\ (Produced > args.max_fails => ExitStatus # 0)

(***************************************************************************)
(* C2.  The row of every report is args.start_row plus the number of       *)
(* records loaded before the record it is about (those of earlier chunks   *)
(* and the earlier ones of its own chunk), not the record's position in    *)
(* its chunk.                                                              *)
(***************************************************************************)
C2_ReportRowIsFileRelative ==
    \A k \in 1..Len(tasks) : \A j \in 1..Len(tasks[k].reports) :
        tasks[k].reports[j].row =
            args.start_row + (LoadedIndex(tasks[k].report_lines[j]) - 1)

C2_Witness ==
    \E k \in 2..Len(tasks) :
        /\ Len(tasks[k].reports) > 0
        /\ tasks[k].reports[1].row = args.start_row + (k - 1)
        /\ tasks[k].reports[1] \in {stdout[i].report : i \in
                {n \in 1..Len(stdout) : stdout[n].text = "report"}}

(***************************************************************************)
(* C3.  The chunks dispatched so far are the loaded records read so far,   *)
(* in file order, without gap or overlap; once dispatch_workers has        *)
(* returned they are all the loaded records and their lengths sum to the   *)
(* number of loaded records; no record is validated twice, and when the    *)
(* run completes every loaded record has been validated exactly once.      *)
(***************************************************************************)
ChunkSeq == [k \in 1..Len(tasks) |-> tasks[k].records]
ValidatedLines == Concat([k \in 1..Len(tasks) |-> tasks[k].validated])

C3_ChunksPartitionRecords ==
    /\ Concat(ChunkSeq) = SubSeq(loaded, 1, reader_pos)
    /\ \A k \in 1..Len(tasks) : Len(tasks[k].records) >= 1
    /\ DispatchReturned =>
          /\ Concat(ChunkSeq) = loaded
          /\ SumSeq([k \in 1..Len(tasks) |-> Len(tasks[k].records)]) = Len(loaded)
    /\ \A i, j \in 1..Len(ValidatedLines) :
          ValidatedLines[i] = ValidatedLines[j] => i = j
    /\ pc = "completed" =>
          \A r \in 1..Len(loaded) :
              Cardinality({i \in 1..Len(ValidatedLines) :
                              ValidatedLines[i] = loaded[r].line}) = 1

C3_Witness ==
    /\ pc = "completed"
    /\ Len(tasks) >= 2
    /\ Len(ValidatedLines) = Len(loaded)

(***************************************************************************)
(* C4.  The start row given to the k-th worker is args.start_row plus the  *)
(* sum of the lengths of the chunks dispatched before it; 10 records in    *)
(* chunks of 3 from start row 1 get the start rows 1, 4, 7, 10.            *)
(***************************************************************************)
ChunkStartRows == [k \in 1..Len(tasks) |-> tasks[k].start_row]

C4_Example ==
    /\ pc = "poll"
    /\ Len(loaded) = 10
    /\ args.start_row = 1
    /\ chunk_size = 3

C4_StartRowAccumulatesTrueLengths ==
    /\ \A k \in 1..Len(tasks) :
          tasks[k].start_row =
              args.start_row + SumSeq([j \in 1..(k - 1) |-> Len(tasks[j].records)])
    /\ C4_Example => ChunkStartRows = <<1, 4, 7, 10>>

C4_Witness ==
    /\ C4_Example
    /\ Len(tasks) = 4
    /\ Len(tasks[4].records) = 1

(***************************************************************************)
(* C5.  One call of print_validation_reports prints at most report_quota - *)
(* printed_reports reports, none when that number is zero or negative, and *)
(* leaves no drained report on the queue.  With printed_reports above      *)
(* report_quota the slice reports[:max_reports] has a negative bound and   *)
(* keeps all but the last reports, so this fails.                          *)
(***************************************************************************)
C5_PrintsAtMostRemainingQuota ==
    /\ Len(call.printed) <= Max(call.report_quota - call.printed_reports, 0)
    /\ call.queue = <<>>

(***************************************************************************)
(* C6.  The value print_validation_reports returns is the number of        *)
(* reports it printed, and is at most report_quota - printed_reports.  It  *)
(* returns the number of reports it drained, so this fails.                *)
(***************************************************************************)
C6_ReturnsNumberPrinted ==
    /\ call.ret = Len(call.printed)
    /\ call.ret <= call.report_quota - call.printed_reports

(***************************************************************************)
(* C7.  Over a whole run the number of validation reports printed never    *)
(* exceeds max_fails.                                                      *)
(***************************************************************************)
C7_PrintedWithinQuota == Len(PrintedReports) <= args.max_fails

C7_Witness ==
    /\ args.max_fails >= 1
    /\ Produced > args.max_fails
    /\ Len(call.drained) > Len(call.printed)
    /\ Len(PrintedReports) = args.max_fails

(***************************************************************************)
(* C8.  The driver takes the early exit only with total_fails strictly     *)
(* above max_fails, and with at least one result not ready.                *)
(***************************************************************************)
C8_EarlyExitOnlyAboveQuota ==
    pc = "early_exit" =>
        /\ total_fails > args.max_fails
        /\ ~are_results_ready(results)

C8_Witness ==
    /\ pc = "early_exit"
    /\ args.max_fails >= 1
    /\ \E k \in 1..Len(tasks) :
          /\ tasks[k].status # "returned"
          /\ tasks[k].relative_row < Len(tasks[k].records)

(***************************************************************************)
(* C9.  A worker puts one progress update of value 1 for each record it    *)
(* has processed, passed or failed; when it returns, the updates it has    *)
(* put sum to the length of its chunk, which is the count it returns.      *)
(***************************************************************************)
C9_OneProgressUpdatePerRecord ==
    \A k \in 1..Len(tasks) :
        /\ tasks[k].put_sum = tasks[k].relative_row
        /\ \A i \in 1..Len(progress_queues[k]) : progress_queues[k][i] = 1
        /\ tasks[k].status = "returned" =>
              /\ tasks[k].put_sum = Len(tasks[k].records)
              /\ results[k] # None
              /\ results[k][1][1] = Len(tasks[k].records)

C9_Witness ==
    \E k \in 1..Len(tasks) :
        /\ tasks[k].status = "returned"
        /\ Len(tasks[k].records) = 2
        /\ Len(tasks[k].reports) = 1
        /\ tasks[k].put_sum = 2

(***************************************************************************)
(* C10.  As claimed: a processed record has one report per schema rule it  *)
(* violates.  validate raises a single error per record, so this fails.    *)
(***************************************************************************)
C10_OneReportPerViolatedRule ==
    \A k \in 1..Len(tasks) : \A i \in Processed(k) :
        Cardinality(ReportsFor(k, i)) = Cardinality(ViolationsOf(k, i))

(***************************************************************************)
(* C10, amended.  A processed record that violates one or more rules has   *)
(* exactly one report, about one of the rules it violates; a record that   *)
(* violates none has no report.                                            *)
(***************************************************************************)
C10_OneReportPerFailingRecord ==
    \A k \in 1..Len(tasks) : \A i \in Processed(k) :
        /\ Cardinality(ReportsFor(k, i)) = IF ViolationsOf(k, i) = {} THEN 0 ELSE 1
        /\ \A j \in ReportsFor(k, i) :
              <<tasks[k].reports[j].validator, tasks[k].reports[j].path>>
                  \in ViolationsOf(k, i)

C10_Witness ==
    \E k \in 1..Len(tasks) : \E i \in Processed(k) :
        /\ Cardinality(ViolationsOf(k, i)) >= 2
        /\ Cardinality(ReportsFor(k, i)) = 1

(***************************************************************************)
(* C11.  A validation failure never ends a worker: the lines a worker has  *)
(* validated are always the first lines of its chunk, in order, the        *)
(* failing ones included; a worker that has returned has validated every   *)
(* record of its chunk, also those after a failing record, and its result  *)
(* is the pair (number of records, reports), with one report for each      *)
(* failing record.                                                         *)
(***************************************************************************)
ChunkLines(k) == [i \in 1..Len(tasks[k].records) |-> tasks[k].records[i].line]

C11_FailureNeverAbortsBatch ==
    \A k \in 1..Len(tasks) :
        /\ tasks[k].validated =
              SubSeq(ChunkLines(k), 1,
                     tasks[k].relative_row + (IF tasks[k].reported THEN 1 ELSE 0))
        /\ tasks[k].status = "returned" =>
              /\ tasks[k].validated = ChunkLines(k)
              /\ results[k] = Some(<<Len(tasks[k].records), tasks[k].reports>>)
              /\ \A i \in 1..Len(tasks[k].records) :
                    ViolationsOf(k, i) # {} => ReportsFor(k, i) # {}

C11_Witness ==
    \E k \in 1..Len(tasks) :
        /\ tasks[k].status = "returned"
        /\ Len(tasks[k].records) = 2
        /\ ViolationsOf(k, 1) # {}
        /\ tasks[k].validated = ChunkLines(k)

(***************************************************************************)
(* The end-to-end scenario: a file of 5 data rows of which the 3rd has a   *)
(* bad id and the 4th a temp above the maximum, validated from the first   *)
(* data row with --processes 2 --max-fails 5 --chunk-size 3.               *)
(***************************************************************************)
EndToEndFile ==
    <<Header, GoodRecord, GoodRecord, BadIdRecord, BadTempRecord, GoodRecord>>

InitEndToEnd ==
    /\ csv_file = EndToEndFile
    /\ args = [start_row |-> 2, processes |-> 2, chunk_size |-> Some(3),
               max_fails |-> 5]
    /\ pc = "main"
    /\ schema = ValidSchema
    /\ InitRest

SpecEndToEnd == InitEndToEnd /\ [][Next]_vars

(***************************************************************************)
(* C12.  The end-to-end scenario ends with exit status 0, with exactly two *)
(* validation reports printed, one for each of the two failing rows, and   *)
(* with 5 progress updates in total.  A run whose workers are all ready at *)
(* a loop test ends without draining the queue again, so it can print      *)
(* fewer than two reports, and this fails.                                 *)
(***************************************************************************)
FailingRows ==
    {args.start_row + (j - 1) : j \in {i \in 1..Len(loaded) :
        iter_errors(DropNone(loaded[i].record)) # {}}}

ProgressTotal == SumSeq([k \in 1..Len(tasks) |-> tasks[k].put_sum])

C12_EndToEnd ==
    Exited =>
        /\ ExitStatus = 0
        /\ Len(PrintedReports) = 2
        /\ {PrintedReports[i].report.row : i \in 1..Len(PrintedReports)} = FailingRows
        /\ ProgressTotal = 5

(***************************************************************************)
(* chunk_records(records, n), the fixed-chunk-count chunker the tests      *)
(* import: chunk_size = ceil(N / n); it yields (chunk, start, end) for     *)
(* start = 0, chunk_size, 2 * chunk_size, ... below N, with end clipped to *)
(* N.  The chunker runs apply it to the records of a file, n being the     *)
(* number of processes.                                                    *)
(***************************************************************************)
\* A chunker that rounds the chunk size down.
chunk_records_size_floor(N, n) == Max(1, N \div n)

\* chunk_size = math.ceil(len(records) / n)
chunk_records_size(N, n) == (N + n - 1) \div n

\* The start of the next chunk: the end of the last chunk yielded.
chunk_records_start == IF chunks = <<>> THEN 0 ELSE chunks[Len(chunks)].end

InitChunker ==
    /\ csv_file \in Files(MaxDispatchRows, {GoodRecord})
    /\ args \in [start_row : {2}, processes : 1..MaxChunkCount,
                 chunk_size : {None}, max_fails : {0}]
    /\ pc = "chunker"
    /\ schema = ValidSchema
    /\ InitRest

\* One chunk yielded.
ChunkRecordsYield ==
    /\ pc = "chunker"
    /\ chunk_records_start < Len(loaded)
    /\ LET size == chunk_records_size(Len(loaded), args.processes)
           start == chunk_records_start
           end == Min(start + size, Len(loaded))
       IN  chunks' = Append(chunks, [records |-> SubSeq(loaded, start + 1, end),
                                     start |-> start, end |-> end])
    /\ UNCHANGED <<inputs, pc, chunk_size, reader_pos, file_relative_chunk_start_row,
                   tasks, results, progress_queues, validation_error_queue,
                   total_fails, pbar_n, queue_i, stdout, call>>

\* The generator is exhausted.
ChunkRecordsStop ==
    /\ pc = "chunker"
    /\ chunk_records_start >= Len(loaded)
    /\ pc' = "chunked"
    /\ UNCHANGED <<inputs, chunks, chunk_size, reader_pos,
                   file_relative_chunk_start_row, tasks, results, progress_queues,
                   validation_error_queue, total_fails, pbar_n, queue_i, stdout,
                   call>>

NextChunker ==
    \/ ChunkRecordsYield
    \/ ChunkRecordsStop

SpecChunker == InitChunker /\ [][NextChunker]_vars

ChunkLengths == [k \in 1..Len(chunks) |-> Len(chunks[k].records)]
CeilDiv(a, b) == IF a % b = 0 THEN a \div b ELSE (a \div b) + 1

(***************************************************************************)
(* C13.  The chunks chunk_records yields for N records and n chunks are    *)
(* consecutive pieces of the records; when it is done their lengths sum to *)
(* N, every chunk but the last has length ceil(N / n), and they            *)
(* concatenate to the records; N = 10 gives 4, 4, 2 for n = 3 and 5, 5 for *)
(* n = 2.                                                                  *)
(***************************************************************************)
C13_ChunkCoverage ==
    /\ Concat([k \in 1..Len(chunks) |-> chunks[k].records])
          = SubSeq(loaded, 1, chunk_records_start)
    /\ pc = "chunked" =>
          /\ SumSeq(ChunkLengths) = Len(loaded)
          /\ \A k \in 1..(Len(chunks) - 1) :
                ChunkLengths[k] = CeilDiv(Len(loaded), args.processes)
          /\ ChunkLengths[Len(chunks)] <= CeilDiv(Len(loaded), args.processes)
          /\ Concat([k \in 1..Len(chunks) |-> chunks[k].records]) = loaded
          /\ (Len(loaded) = 10 /\ args.processes = 3) => ChunkLengths = <<4, 4, 2>>
          /\ (Len(loaded) = 10 /\ args.processes = 2) => ChunkLengths = <<5, 5>>

C13_Witness ==
    /\ pc = "chunked"
    /\ Len(loaded) = 10
    /\ args.processes = 3
    /\ ChunkLengths = <<4, 4, 2>>

(***************************************************************************)
(* C14.  As claimed: chunk_records yields exactly n chunks.  With chunks   *)
(* of ceil(N / n) records there are not always enough records for n        *)
(* chunks, so this fails.                                                  *)
(***************************************************************************)
C14_ExactlyNChunks == pc = "chunked" => Len(chunks) = args.processes

(***************************************************************************)
(* C14, amended.  chunk_records yields ceil(N / ceil(N / n)) chunks: at    *)
(* least one, never more than n, and exactly n when n divides N.           *)
(***************************************************************************)
C14_AtMostNChunks ==
    pc = "chunked" =>
        /\ Len(chunks) =
              CeilDiv(Len(loaded), CeilDiv(Len(loaded), args.processes))
        /\ Len(chunks) >= 1
        /\ Len(chunks) <= args.processes
        /\ Len(loaded) % args.processes = 0 => Len(chunks) = args.processes

C14_Witness ==
    /\ pc = "chunked"
    /\ Len(loaded) = 5
    /\ args.processes = 4
    /\ Len(chunks) = 3

(***************************************************************************)
(* C15.  Once the workers are dispatched, the chunk size is the minimum of *)
(* the requested chunk size and floor(rows / processes), rows being the    *)
(* lines of the file, and there are at least args.processes chunks.  The   *)
(* bound counts the header line and the rows before start_row, which are   *)
(* not loaded, so the second part fails.                                   *)
(***************************************************************************)
C15_AtLeastOneChunkPerProcess ==
    (DispatchReturned /\ args.chunk_size # None) =>
        /\ chunk_size = Min(args.chunk_size[1],
                            lines_in_file(csv_file) \div args.processes)
        /\ Len(tasks) >= args.processes

(***************************************************************************)
(* C16.  A run without --chunk-size goes on to dispatch the workers, with  *)
(* a chunk size of rows / processes.  min(max_chunk_size, None) raises     *)
(* TypeError, so this fails.                                               *)
(***************************************************************************)
C16_ChunkSizeOptional ==
    (args.chunk_size = None /\ pc # "main") =>
        /\ pc # "TypeError"
        /\ chunk_size = lines_in_file(csv_file) \div args.processes

(***************************************************************************)
(* C17 as stated.  The first record the loader returns is the file's row   *)
(* args.start_row, for every start row within the file, and the column     *)
(* names come from the header line.                                        *)
(***************************************************************************)
C17_FirstRecordIsStartRow ==
    (DispatchReturned /\ Len(tasks) >= 1) =>
        /\ tasks[1].records[1].line = args.start_row
        /\ read_csv_columns(csv_file, args.start_row) = csv_file[1]

(***************************************************************************)
(* C17, amended.  The column names always come from line 1.  The records   *)
(* loaded are the lines from max(start_row, 2) to the end of the file, in  *)
(* file order, each one the content of its line: every data row before     *)
(* start_row is skipped, and the first record handed to a worker is line   *)
(* start_row for start_row >= 2 and line 2 for start_row = 1.              *)
(***************************************************************************)
C17_LoaderStartsAtStartRow ==
    LET s == Max(args.start_row, 2)
    IN  /\ read_csv_columns(csv_file, args.start_row) = csv_file[1]
        /\ Len(loaded) = Len(csv_file) - s + 1
        /\ \A j \in 1..Len(loaded) :
                /\ loaded[j].line = s + j - 1
                /\ loaded[j].record = csv_file[s + j - 1]
        /\ (DispatchReturned /\ Len(tasks) >= 1) =>
                tasks[1].records[1].line = s

C17_Witness ==
    /\ DispatchReturned
    /\ args.start_row = 4
    /\ Len(csv_file) >= 6
    /\ Len(tasks) >= 2
    /\ tasks[1].records[1].line = 4

(***************************************************************************)
(* C18.  Draining a progress channel never blocks and never raises: the    *)
(* drain step is enabled whatever the channel holds.  It leaves the        *)
(* channel empty, adds the sum of the updates that were buffered to the    *)
(* bar (0 for an empty channel) and touches no other channel.  No update   *)
(* is counted twice: while the driver runs, the bar's advance plus what is *)
(* still buffered is what the workers have put.                            *)
(***************************************************************************)
ProgressDrainStep ==
    pc = "progress" /\ (queue_i' # queue_i \/ pc' # pc)

ProgressBuffered ==
    SumSeq([k \in 1..Len(progress_queues) |-> SumSeq(progress_queues[k])])

C18_DrainTakesAllBufferedOnce ==
    /\ [](pc = "progress" => ENABLED UpdateProgressBar)
    /\ [](pc \in {"dispatch", "poll", "progress", "reports", "early_exit"} =>
            (pbar_n - (args.start_row - 1)) + ProgressBuffered = ProgressTotal)
    /\ [][ProgressDrainStep =>
            /\ progress_queues'[queue_i] = <<>>
            /\ pbar_n' = pbar_n + SumSeq(progress_queues[queue_i])
            /\ (progress_queues[queue_i] = <<>> => pbar_n' = pbar_n)
            /\ \A k \in 1..Len(progress_queues) :
                    k # queue_i => progress_queues'[k] = progress_queues[k]]_vars

C18_Witness ==
    /\ pc = "reports"
    /\ Len(tasks) = 1
    /\ tasks[1].put_sum = 2
    /\ progress_queues[1] = <<>>
    /\ pbar_n = (args.start_row - 1) + 2

(***************************************************************************)
(* C19 as stated.  When the run has ended, normally or early, something    *)
(* has been printed and the last line printed is a summary, not a          *)
(* validation report.                                                      *)
(***************************************************************************)
C19_LastLineIsSummary ==
    pc \in {"completed", "early_exit"} =>
        /\ stdout # <<>>
        /\ stdout[Len(stdout)].text # "report"

(***************************************************************************)
(* C19, amended.  The exit notice is printed on early exit only, once, as  *)
(* the last line: no validation report follows it.  A run that completes   *)
(* normally prints reports only and no summary line; it ends with the      *)
(* progress bar set to the number of lines of the file.                    *)
(***************************************************************************)
C19_NoticeIsLastOnEarlyExit ==
    /\ \A i \in 1..Len(stdout) :
            stdout[i] = ExitNotice => (i = Len(stdout) /\ pc = "early_exit")
    /\ pc = "early_exit" =>
            (stdout # <<>> /\ stdout[Len(stdout)] = ExitNotice)
    /\ pc = "completed" =>
            /\ \A i \in 1..Len(stdout) : stdout[i].text = "report"
            /\ pbar_n = lines_in_file(csv_file)

C19_Witness ==
    /\ pc = "early_exit"
    /\ Len(stdout) >= 2
    /\ stdout[1].text = "report"

(***************************************************************************)
(* C20.  The reports generated depend on the file and the start row only,  *)
(* not on the process count or the chunk size: the reports the workers     *)
(* have generated are always among those that the file's records, taken    *)
(* one by one with their position in the file, give under the schema, and  *)
(* once every worker has returned they are exactly those.  Two runs over   *)
(* the same file and start row thus generate the same set of reports.      *)
(***************************************************************************)
ReportsOfFile(file, start_row) ==
    LET rows == read_csv(file, start_row)
    IN  {validation_error_report(validate(DropNone(rows[j].record))[1],
                                 start_row + (j - 1)) :
            j \in {i \in 1..Len(rows) :
                      validate(DropNone(rows[i].record)) # None}}

GeneratedReports ==
    UNION {{tasks[k].reports[j] : j \in 1..Len(tasks[k].reports)} :
              k \in 1..Len(tasks)}

AllReturned ==
    DispatchReturned /\ \A k \in 1..Len(tasks) : tasks[k].status = "returned"

C20_ReportsIndependentOfChunking ==
    /\ GeneratedReports \subseteq ReportsOfFile(csv_file, args.start_row)
    /\ AllReturned =>
            GeneratedReports = ReportsOfFile(csv_file, args.start_row)

C20_Witness ==
    /\ AllReturned
    /\ Len(tasks) = 2
    /\ args.processes = 2
    /\ tasks[1].reports # <<>>
    /\ tasks[2].reports # <<>>

(***************************************************************************)
(* C21.  Under fair scheduling of the driver and of the workers, a driver  *)
(* that has entered the poll loop eventually terminates, by normal         *)
(* completion or by early exit.  The loop goes round only while a result   *)
(* is not ready, and each of its steps can be taken whatever the workers   *)
(* have done and whatever the queues hold.                                 *)
(***************************************************************************)
C21_DriverTerminates ==
    /\ (pc = "poll") ~> (pc \in {"completed", "early_exit"})
    /\ [][(pc = "poll" /\ pc' = "progress") => ~are_results_ready(results)]_vars
    /\ [](pc = "poll" => ENABLED Poll)
    /\ [](pc = "progress" => ENABLED UpdateProgressBar)
    /\ [](pc = "reports" => ENABLED PrintValidationReports)

C21_Witness ==
    /\ pc = "completed"
    /\ Len(tasks) = 2
    /\ total_fails >= 1

(***************************************************************************)
(* C22.  A worker validates the records of its chunk in file order, and    *)
(* the reports it puts have strictly increasing row numbers: in the        *)
(* sequence of its puts, and among its reports on the shared queue,        *)
(* whatever the other workers have put between them.                       *)
(***************************************************************************)
StrictlyIncreasing(s) == \A i \in 1..(Len(s) - 1) : s[i] < s[i + 1]

ReportsOfTask(k) == {tasks[k].reports[j] : j \in 1..Len(tasks[k].reports)}

C22_WorkerReportsInRowOrder ==
    \A k \in 1..Len(tasks) :
        /\ StrictlyIncreasing(tasks[k].validated)
        /\ StrictlyIncreasing([j \in 1..Len(tasks[k].reports) |->
                                   tasks[k].reports[j].row])
        /\ \A i, j \in 1..Len(validation_error_queue) :
                (/\ i < j
                 /\ validation_error_queue[i] \in ReportsOfTask(k)
                 /\ validation_error_queue[j] \in ReportsOfTask(k))
                    => validation_error_queue[i].row < validation_error_queue[j].row

\* Worker 1's two reports are on the queue with a report of worker 2 between.
C22_Witness ==
    /\ Len(tasks) = 2
    /\ Len(validation_error_queue) = 3
    /\ validation_error_queue[1] \in ReportsOfTask(1)
    /\ validation_error_queue[2] \in ReportsOfTask(2)
    /\ validation_error_queue[3] \in ReportsOfTask(1)

(***************************************************************************)
(* C23.  A null field is dropped before validation and treated as absent.  *)
(* No report of a record names the type rule; a report about a column      *)
(* whose field is null names the required rule; and a record with a null   *)
(* field in a (required) column gets a report that names the required rule *)
(* for a column that is null.                                              *)
(***************************************************************************)
RecordReports(k, i) == {tasks[k].reports[j] : j \in ReportsFor(k, i)}

C23_NullTreatedAsAbsent ==
    \A k \in 1..Len(tasks) : \A i \in Processed(k) :
        LET rec == tasks[k].records[i].record IN
        /\ \A r \in RecordReports(k, i) :
                /\ r.validator # "type"
                /\ rec[r.path] = None <=> r.validator = "required"
        /\ (\E c \in Columns : rec[c] = None) =>
                \E r \in RecordReports(k, i) :
                    r.validator = "required" /\ rec[r.path] = None

C23_Witness ==
    \E k \in 1..Len(tasks) : \E i \in Processed(k) :
        /\ tasks[k].records[i].record.temp = None
        /\ tasks[k].records[i].record.id = Some("abc")
        /\ \E r \in RecordReports(k, i) : r.validator = "required" /\ r.path = "temp"

(***************************************************************************)
(* C24.  When the run completes normally the validation error queue is     *)
(* empty, every report the workers put has been counted in total_fails,    *)
(* and if the workers produced at most max_fails reports every one of them *)
(* has been printed.  The loop ends on the loop test with no drain after   *)
(* it, so this fails.                                                      *)
(***************************************************************************)
C24_QueueDrainedAtCompletion ==
    pc = "completed" =>
        /\ validation_error_queue = <<>>
        /\ total_fails = Produced
        /\ (Produced <= args.max_fails => Len(PrintedReports) = Produced)

(***************************************************************************)
(* C25.  At the early exit exactly max_fails validation reports have been  *)
(* printed, all of them before the exit notice: the output is max_fails    *)
(* report lines followed by the notice (the notice alone when max_fails is *)
(* 0).  Until then the driver has printed min(total_fails, max_fails)      *)
(* reports.                                                                *)
(***************************************************************************)
C25_ExactlyQuotaPrintedAtEarlyExit ==
    /\ pc \in {"poll", "progress", "reports", "early_exit"} =>
            Len(PrintedReports) = Min(total_fails, args.max_fails)
    /\ pc = "early_exit" =>
            /\ Len(stdout) = args.max_fails + 1
            /\ \A i \in 1..args.max_fails : stdout[i].text = "report"
            /\ stdout[args.max_fails + 1] = ExitNotice

C25_Witness ==
    /\ pc = "early_exit"
    /\ args.max_fails = 1
    /\ Produced = 2
    /\ Len(PrintedReports) = 1
    /\ validation_error_queue = <<>>

(***************************************************************************)
(* C26.  For 2 <= start_row <= lines of the file: while the driver polls,  *)
(* the position of the progress bar is (start_row - 1) plus the number of  *)
(* progress updates drained, it is at most the bar's total (the lines of   *)
(* the file) and it never decreases; the updates drained plus the updates  *)
(* still queued are as many as the records the workers have processed.     *)
(***************************************************************************)
Polling == pc \in {"poll", "progress", "reports"}

UpdatesQueued == SumSeq([k \in 1..Len(progress_queues) |-> Len(progress_queues[k])])

UpdatesDrained == ProgressTotal - ProgressBuffered

RecordsProcessed == SumSeq([k \in 1..Len(tasks) |-> Cardinality(Processed(k))])

C26_ProgressAccounting ==
    /\ []((Polling /\ args.start_row >= 2) =>
            /\ pbar_n = (args.start_row - 1) + UpdatesDrained
            /\ pbar_n <= lines_in_file(csv_file)
            /\ UpdatesDrained + UpdatesQueued = RecordsProcessed)
    /\ [][(Polling /\ args.start_row >= 2) => pbar_n' >= pbar_n]_vars

C26_Witness ==
    /\ Polling
    /\ args.start_row = 2
    /\ pbar_n = 2
    /\ UpdatesQueued = 1
    /\ Len(tasks) = 2

(***************************************************************************)
(* C27.  With --processes 1 the chunks are validated one after another in  *)
(* dispatch order: a task runs only when every earlier task has returned.  *)
(* The validation reports are then printed in strictly increasing row      *)
(* number, and the first report printed is that of the lowest failing line *)
(* of the file at or after start_row.                                      *)
(***************************************************************************)
FailingLines ==
    {loaded[i].line : i \in {j \in 1..Len(loaded) :
        iter_errors(DropNone(loaded[j].record)) # {}}}

C27_SingleProcessPrintsInRowOrder ==
    args.processes = 1 =>
        /\ \A k \in 1..Len(tasks) : tasks[k].status # "queued" =>
                \A j \in 1..(k - 1) : tasks[j].status = "returned"
        /\ StrictlyIncreasing([i \in 1..Len(PrintedReports) |->
                                   PrintedReports[i].report.row])
        /\ PrintedReports # <<>> =>
                /\ PrintedReports[1].report.row \in FailingLines
                /\ \A l \in FailingLines : PrintedReports[1].report.row <= l

C27_Witness ==
    /\ args.processes = 1
    /\ Len(tasks) = 2
    /\ Len(PrintedReports) = 3
    /\ PrintedReports[2].report \in ReportsOfTask(1)
    /\ PrintedReports[3].report \in ReportsOfTask(2)

(***************************************************************************)
(* C28.  The row a report carries identifies the line of the file of the   *)
(* record it is about, whatever start_row the run was given: two runs with *)
(* different start rows that both validate a record then report the same   *)
(* row for it.  With start_row = 1 the loader starts at line 2 as it does  *)
(* with start_row = 2, but the rows are counted from 1, so this fails.     *)
(***************************************************************************)
C28_ReportRowIsFileLine ==
    \A k \in 1..Len(tasks) : \A j \in 1..Len(tasks[k].reports) :
        tasks[k].reports[j].row = tasks[k].report_lines[j]

(***************************************************************************)
(* C29.  For a file with at least one data row, a process count of at      *)
(* least 1 and a requested chunk size of at least 1, the chunk size main   *)
(* hands to the loader is at least 1.  The bound int(csv_rows / processes) *)
(* is 0 when there are more processes than lines, so this fails.           *)
(***************************************************************************)
C29_ChunkSizeAtLeastOne ==
    (pc # "main" /\ args.chunk_size # None) => chunk_size >= 1

(***************************************************************************)
(* C30.  A run in which a worker task ended with an error other than a     *)
(* validation failure does not end as a successful run: when the driver    *)
(* completes with exit status 0, every task has returned.  The driver only *)
(* asks whether the results are ready, never for their value, so this      *)
(* fails.                                                                  *)
(***************************************************************************)
C30_WorkerErrorNotSuccess ==
    pc = "completed" => \A k \in 1..Len(tasks) : tasks[k].status = "returned"

====
